---------------------------- MODULE Spec2Model ----------------------------
(***************************************************************************)
(* A model of app.py of fitness-ai-form: the nutrition calculators, the    *)
(* meal suggestion, the posture analysis and the Streamlit session that    *)
(* ties them together.                                                     *)
(*                                                                         *)
(* Numbers.  Python floats are modelled as exact rationals <<n, d>> in     *)
(* lowest terms with d > 0; round() is Python's round-half-to-even.  The   *)
(* model therefore follows the real-number reading of every formula; the   *)
(* last-bit effects of binary floating point are outside it.               *)
(*                                                                         *)
(* Strings are sequences of Unicode code points.                           *)
(***************************************************************************)
EXTENDS Integers, Sequences, FiniteSets, TLC

VARIABLES
  POSE_AVAILABLE,  \* module flag set by the import of mediapipe (app.py:29-33)
  session,         \* st.session_state: a dict with keys lead, assess, posture
  screen,          \* what the last run of main() rendered
  call             \* a direct call of one function: its name, arguments, result

vars == <<POSE_AVAILABLE, session, screen, call>>

\* ---------------------------------------------------------------------------
\* Strings are sequences of Unicode code points, so that equality, prefix and
\* substring tests act on the text the program holds.
\* ---------------------------------------------------------------------------
\* Selectbox values of the intake form (app.py:399-410) and the literals the
\* calculators compare them with.
\* app.py:125  gender: male
GenderMale ==
  <<
     30007, 24615
  >>
\* app.py:399  female (second selectbox entry)
GenderFemale ==
  <<
     22899, 24615
  >>
\* app.py:133  activity level: low
LevelLow ==
  <<
     20302, 12356, 65288, 12487, 12473, 12463, 12527, 12540, 12463, 20013,
     24515, 47, 36939, 21205, 12411, 12412, 28961, 12375, 65289
  >>
\* app.py:134  activity level: somewhat low
LevelSomewhatLow ==
  <<
     12420, 12420, 20302, 12356, 65288, 36913, 49, 12316, 50, 36605,
     12356, 36939, 21205, 65289
  >>
\* app.py:135  activity level: normal
LevelNormal ==
  <<
     26222, 36890, 65288, 36913, 51, 12316, 52, 36939, 21205, 65289
  >>
\* app.py:136  activity level: high
LevelHigh ==
  <<
     39640, 12356, 65288, 36913, 53, 20197, 19978, 12495, 12540, 12489,
     65289
  >>
\* app.py:137  activity level: very high
LevelVeryHigh ==
  <<
     38750, 24120, 12395, 39640, 12356, 65288, 12450, 12473, 12522, 12540,
     12488, 32026, 65289
  >>
\* app.py:143  goal: cut (-15..20%)
GoalCutAggressive ==
  <<
     28187, 37327, 65288, 45, 49, 53, 12316, 50, 48, 37, 65289
  >>
\* app.py:145  goal: mild cut (-10%)
GoalCutMild ==
  <<
     32233, 12420, 12363, 28187, 37327, 65288, 45, 49, 48, 37, 65289
  >>
\* app.py:147  goal: maintain
GoalMaintain ==
  <<
     29694, 29366, 32173, 25345
  >>
\* app.py:149  goal: bulk (+10%)
GoalBulk ==
  <<
     22679, 37327, 65288, 43, 49, 48, 37, 65289
  >>

\* Literals of meal_suggestions (app.py:169-208): the catalog in catalog order,
\* the coaching notes, the fillers of the guide and the placeholder.
\* app.py:171  the prefix goal.startswith tests
CutPrefix ==
  <<
     28187, 37327
  >>
\* app.py:177  oatmeal + unsweetened yogurt + berries
Breakfast1 ==
  <<
     12458, 12540, 12488, 12511, 12540, 12523, 43, 28961, 31958, 12520,
     12540, 12464, 12523, 12488, 43, 12505, 12522, 12540
  >>
\* app.py:178  scrambled egg + brown-rice ball
Breakfast2 ==
  <<
     20840, 21365, 49, 43, 21365, 30333, 50, 12398, 12473, 12463, 12521,
     12531, 12502, 12523, 43, 29572, 31859, 12362, 12395, 12366, 12426
  >>
\* app.py:179  protein shake + banana
Breakfast3 ==
  <<
     12503, 12525, 12486, 12452, 12531, 12471, 12455, 12452, 12463, 43,
     12496, 12490, 12490
  >>
\* app.py:182  grilled chicken 150g + mixed-grain rice 150g + salad
Lunch1 ==
  <<
     40335, 12416, 12397, 12464, 12522, 12523, 49, 53, 48, 103, 43, 38609,
     31296, 31859, 49, 53, 48, 103, 43, 12469, 12521, 12480
  >>
\* app.py:183  salted salmon + sweet potato 200g + miso soup
Lunch2 ==
  <<
     39853, 12398, 22633, 28988, 12365, 43, 12373, 12388, 12414, 12356,
     12418, 50, 48, 48, 103, 43, 21619, 22092, 27713
  >>
\* app.py:184  tofu steak + brown rice 150g + stir-fried vegetables
Lunch3 ==
  <<
     35910, 33104, 12473, 12486, 12540, 12461, 43, 29572, 31859, 49, 53,
     48, 103, 43, 37326, 33756, 28818, 12417
  >>
\* app.py:187  foil-baked white fish + broccoli + potato 150g
Dinner1 ==
  <<
     30333, 36523, 39770, 12398, 12507, 12452, 12523, 28988, 12365, 43,
     12502, 12525, 12483, 12467, 12522, 12540, 43, 12376, 12419, 12364,
     12356, 12418, 49, 53, 48, 103
  >>
\* app.py:188  pork fillet 100g + cabbage soup + brown rice 120g
Dinner2 ==
  <<
     35930, 12498, 12524, 49, 48, 48, 103, 43, 30333, 33756, 12473, 12540,
     12503, 43, 29572, 31859, 49, 50, 48, 103
  >>
\* app.py:189  chicken meatball hot pot
Dinner3 ==
  <<
     40335, 12388, 12367, 12397, 37707, 65288, 26149, 38632, 23569, 37327,
     65289
  >>
\* app.py:192  protein bar / rice ball / edamame / mixed nuts
Snack1 ==
  <<
     12503, 12525, 12486, 12452, 12531, 12496, 12540, 47, 21644, 39080,
     12362, 12395, 12366, 12426, 47, 26525, 35910, 47, 12511, 12483,
     12463, 12473, 12490, 12483, 12484, 23569, 37327
  >>
\* app.py:199  coaching note for a cut
NoteCut ==
  <<
     28187, 37327, 20013, 65306, 33026, 36074, 25511, 12360, 12417, 12539,
     39640, 12383, 12435, 12401, 12367, 12434, 24847, 35672
  >>
\* app.py:199  coaching note otherwise
NoteOther ==
  <<
     22679, 37327, 47, 32173, 25345, 65306, 28845, 27700, 21270, 29289,
     12434, 36939, 21205, 21069, 24460, 12395, 23492, 12379, 12427
  >>
\* app.py:200  shown for empty preferences
PrefsEmpty ==
  <<
     65288, 26410, 20837, 21147, 65289
  >>
\* app.py:200  shown for no allergy token
AvoidNone ==
  <<
     12394, 12375
  >>
\* app.py:203  the fixed placeholder of an emptied slot
Placeholder ==
  <<
     65288, 35442, 24403, 39135, 26448, 12434, 22238, 36991, 12375, 12390,
     36984, 25246, 65289
  >>

\* Literals of analyze_posture and of the results view (app.py:220-286, 488).
\* app.py:222  message: MediaPipe unavailable, analysis skipped
MsgPoseUnavailable ==
  <<
     77, 101, 100, 105, 97, 80, 105, 112, 101, 12364, 21033, 29992, 12391,
     12365, 12394, 12356, 12383, 12417, 12289, 23039, 21218, 35299, 26512,
     12434, 12473, 12461, 12483, 12503, 12375, 12414, 12375, 12383, 12290
  >>
\* app.py:231  message: no landmarks detected
MsgNoLandmarks ==
  <<
     12521, 12531, 12489, 12510, 12540, 12463, 12434, 26908, 20986, 12391,
     12365, 12414, 12379, 12435, 12391, 12375, 12383, 12290, 27491, 38754,
     12363, 12425, 20840, 36523, 12316, 19978, 21322, 36523, 12364, 20889,
     12427, 26126, 12427, 12356, 20889, 30495, 12391, 12362, 35430, 12375,
     12367, 12384, 12373, 12356, 12290
  >>
\* app.py:286  message: analysis complete
MsgDone ==
  <<
     35299, 26512, 23436, 20102
  >>
\* app.py:488  default posture message
MsgNotAnalyzed ==
  <<
     26410, 35299, 26512
  >>
\* app.py:267  finding text before the shoulder angle
ShoulderHead ==
  <<
     32937, 12398, 39640, 12373, 12398, 24038, 21491, 24046, 65306
  >>
\* app.py:269  finding text before the hip angle
HipHead ==
  <<
     39592, 30436, 12398, 24038, 21491, 24046, 65306
  >>
\* app.py:271  finding text before the head angle
HeadHead ==
  <<
     38957, 37096, 12398, 20670, 12365, 65306
  >>
\* app.py:267  finding text after an angle
DegTail ==
  <<
     176, 65288, 53, 176, 20197, 19978, 8594, 35201, 27880, 24847, 65289
  >>
\* app.py:274  finding text before the knee/ankle ratio
KneeHead ==
  <<
     12491, 12540, 12452, 12531, 20670, 21521, 65288, 33181, 38291, 47,
     36275, 39318, 38291, 27604, 65289, 65306
  >>
\* app.py:274  finding text after the ratio
KneeTail ==
  <<
     65288, 60, 48, 46, 57, 48, 12391, 27880, 24847, 65289
  >>
\* app.py:277  substring selecting the shoulder advice
KeyShoulder ==
  <<
     32937
  >>
\* app.py:279  substring selecting the hip advice
KeyHip ==
  <<
     39592, 30436
  >>
\* app.py:281  substring selecting the head advice
KeyHead ==
  <<
     38957, 37096
  >>
\* app.py:283  substring selecting the knee advice
KeyKnee ==
  <<
     12491, 12540, 12452, 12531
  >>
\* app.py:278  advice text: shoulder
AdviceShoulder ==
  <<
     32937, 12398, 24038, 21491, 24046, 8594, 20711, 24125, 31563, 19978,
     37096, 12398, 36942, 32202, 24373, 47, 33145, 26012, 31563, 12398,
     24369, 12373, 12398, 21487, 33021, 24615, 12290, 12469, 12452, 12489,
     12503, 12521, 12531, 12463, 47, 12471, 12519, 12523, 12480, 12540,
     12503, 12524, 12473, 12398, 12501, 12457, 12540, 12512, 20462, 27491,
     12290
  >>
\* app.py:280  advice text: hip
AdviceHip ==
  <<
     39592, 30436, 12398, 24038, 21491, 24046, 8594, 20013, 33216, 31563,
     47, 22823, 33216, 31563, 12398, 24369, 12373, 12289, 32929, 38306,
     31680, 12398, 21487, 21205, 22495, 19981, 36275, 12290, 12463, 12521,
     12512, 12471, 12455, 12523, 47, 12498, 12483, 12503, 12498, 12531,
     12472, 32244, 32722, 12290
  >>
\* app.py:282  advice text: head
AdviceHead ==
  <<
     38957, 37096, 12398, 20670, 12365, 8594, 33016, 37782, 20083, 31361,
     31563, 47, 20711, 24125, 31563, 12398, 24038, 21491, 24046, 12290,
     33016, 26894, 20280, 23637, 12392, 38968, 37096, 12398, 36605, 12356,
     12473, 12488, 12524, 12483, 12481, 12434, 32722, 24931, 21270, 12290
  >>
\* app.py:284  advice text: knee
AdviceKnee ==
  <<
     12491, 12540, 12452, 12531, 8594, 32929, 38306, 31680, 22806, 26059,
     31563, 47, 20869, 36578, 31563, 12496, 12521, 12531, 12473, 12290,
     12481, 12517, 12540, 12502, 12391, 33181, 22806, 25276, 12375, 24847,
     35672, 12398, 12473, 12463, 12527, 12483, 12488, 12289, 12464, 12523,
     12540, 12488, 12502, 12522, 12483, 12472, 12290
  >>

\* Allergy tokens a client may type into the allergy field (app.py:412).
\* app.py:412  allergy token: milk
TokMilk ==
  <<
     20083
  >>
\* app.py:412  allergy token: egg
TokEgg ==
  <<
     21365
  >>
\* input  allergy token: yogurt
TokYogurt ==
  <<
     12520, 12540, 12464, 12523, 12488
  >>
\* input  allergy token: banana
TokBanana ==
  <<
     12496, 12490, 12490
  >>
\* input  allergy token: nuts
TokNuts ==
  <<
     12490, 12483, 12484
  >>
\* input  allergy token: chicken
TokChicken ==
  <<
     40335
  >>

\* ---------------------------------------------------------------------------
\* Exact rational arithmetic standing for Python's float arithmetic.
\* ---------------------------------------------------------------------------
Abs(x) == IF x < 0 THEN -x ELSE x

RECURSIVE GCD(_, _)
GCD(a, b) == IF b = 0 THEN (IF a = 0 THEN 1 ELSE a) ELSE GCD(b, a % b)

\* n/d in lowest terms, d > 0 (d # 0 is required)
Rat(n, d) ==
  LET s == IF d < 0 THEN -1 ELSE 1
      g == GCD(Abs(n), Abs(d))
  IN  <<(s * n) \div g, (s * d) \div g>>

R(i) == <<i, 1>>
RAdd(a, b) == Rat(a[1] * b[2] + b[1] * a[2], a[2] * b[2])
RSub(a, b) == Rat(a[1] * b[2] - b[1] * a[2], a[2] * b[2])
RMul(a, b) == Rat(a[1] * b[1], a[2] * b[2])
\* b # 0 is required: Python raises ZeroDivisionError before dividing
RDiv(a, b) == Rat(a[1] * b[2], a[2] * b[1])
RLess(a, b) == a[1] * b[2] < b[1] * a[2]
RLeq(a, b) == a[1] * b[2] <= b[1] * a[2]
RMax(a, b) == IF RLess(a, b) THEN b ELSE a
RAbs(a) == <<Abs(a[1]), a[2]>>
RIsZero(a) == a[1] = 0

\* Python round(x): the nearest integer, a tie going to the even one
round(x) ==
  LET f == x[1] \div x[2]
      r2 == 2 * (x[1] - f * x[2])
  IN  IF r2 < x[2] THEN f
      ELSE IF r2 > x[2] THEN f + 1
      ELSE IF f % 2 = 0 THEN f ELSE f + 1

\* Python round(x, 2): two decimals
round2(x) == Rat(round(RMul(x, R(100))), 100)

\* The outcome of a call: a value returned or an exception raised
Return(v) == [raised |-> FALSE, value |-> v]
Raise(e) == [raised |-> TRUE, error |-> e]

\* ---------------------------------------------------------------------------
\* Nutrition calculators (app.py:118-165)
\* ---------------------------------------------------------------------------
\* A plausible bug: a zero height yields BMI 0 instead of the division error
calc_bmi_zero_guard(weight_kg, height_cm) ==
  LET h_m == RDiv(height_cm, R(100))
      sq == RMul(h_m, h_m)
  IN  IF RIsZero(sq) THEN Return(R(0))
      ELSE Return(round2(RDiv(weight_kg, sq)))

\* def calc_bmi: no check of its arguments; the division raises for h_m = 0
calc_bmi(weight_kg, height_cm) ==
  LET h_m == RDiv(height_cm, R(100))
      sq == RMul(h_m, h_m)
  IN  IF RIsZero(sq) THEN Raise("ZeroDivisionError")
      ELSE Return(round2(RDiv(weight_kg, sq)))

\* def mifflin_st_jeor_bmr: every gender other than GenderMale takes the
\* second formula
mifflin_st_jeor_bmr(gender, weight_kg, height_cm, age) ==
  LET base == RSub(RAdd(RMul(R(10), weight_kg), RMul(Rat(625, 100), height_cm)),
                   RMul(R(5), R(age)))
  IN  IF gender = GenderMale THEN RAdd(base, R(5)) ELSE RSub(base, R(161))

\* A plausible bug: an unknown level takes the middle factor
activity_factor_mid_default(level) ==
  IF level = LevelLow THEN Rat(12, 10)
  ELSE IF level = LevelSomewhatLow THEN Rat(1375, 1000)
  ELSE IF level = LevelNormal THEN Rat(155, 100)
  ELSE IF level = LevelHigh THEN Rat(1725, 1000)
  ELSE IF level = LevelVeryHigh THEN Rat(19, 10)
  ELSE Rat(155, 100)

\* def activity_factor: mapping.get(level, 1.2)
activity_factor(level) ==
  IF level = LevelLow THEN Rat(12, 10)
  ELSE IF level = LevelSomewhatLow THEN Rat(1375, 1000)
  ELSE IF level = LevelNormal THEN Rat(155, 100)
  ELSE IF level = LevelHigh THEN Rat(1725, 1000)
  ELSE IF level = LevelVeryHigh THEN Rat(19, 10)
  ELSE Rat(12, 10)

\* A plausible bug: the mild cut takes the aggressive multiplier
target_calories_one_cut(tdee, goal) ==
  IF goal = GoalCutAggressive THEN round(RMul(tdee, Rat(85, 100)))
  ELSE IF goal = GoalCutMild THEN round(RMul(tdee, Rat(85, 100)))
  ELSE IF goal = GoalMaintain THEN round(tdee)
  ELSE IF goal = GoalBulk THEN round(RMul(tdee, Rat(110, 100)))
  ELSE round(tdee)

\* def target_calories_from_goal
target_calories_from_goal(tdee, goal) ==
  IF goal = GoalCutAggressive THEN round(RMul(tdee, Rat(85, 100)))
  ELSE IF goal = GoalCutMild THEN round(RMul(tdee, Rat(90, 100)))
  ELSE IF goal = GoalMaintain THEN round(tdee)
  ELSE IF goal = GoalBulk THEN round(RMul(tdee, Rat(110, 100)))
  ELSE round(tdee)

\* A plausible bug: the remainder is not clamped at zero
macro_plan_no_clamp(weight_kg, calories, goal) ==
  LET protein_g == RMul(Rat(18, 10), weight_kg)
      fat_kcal == RMul(calories, Rat(25, 100))
      fat_g == RDiv(fat_kcal, R(9))
      protein_kcal == RMul(protein_g, R(4))
      carbs_kcal == RSub(calories, RAdd(protein_kcal, fat_kcal))
      carbs_g == RDiv(carbs_kcal, R(4))
  IN  <<round(protein_g), round(fat_g), round(carbs_g)>>

\* A plausible bug: fat grams taken at 4 kcal per gram
macro_plan_fat4(weight_kg, calories, goal) ==
  LET protein_g == RMul(Rat(18, 10), weight_kg)
      fat_kcal == RMul(calories, Rat(25, 100))
      fat_g == RDiv(fat_kcal, R(4))
      protein_kcal == RMul(protein_g, R(4))
      carbs_kcal == RMax(R(0), RSub(calories, RAdd(protein_kcal, fat_kcal)))
      carbs_g == RDiv(carbs_kcal, R(4))
  IN  <<round(protein_g), round(fat_g), round(carbs_g)>>

\* def macro_plan: calories is a rational; goal is not read
macro_plan(weight_kg, calories, goal) ==
  LET protein_g == RMul(Rat(18, 10), weight_kg)
      fat_kcal == RMul(calories, Rat(25, 100))
      fat_g == RDiv(fat_kcal, R(9))
      protein_kcal == RMul(protein_g, R(4))
      carbs_kcal == RMax(R(0), RSub(calories, RAdd(protein_kcal, fat_kcal)))
      carbs_g == RDiv(carbs_kcal, R(4))
  IN  <<round(protein_g), round(fat_g), round(carbs_g)>>

\* ---------------------------------------------------------------------------
\* Python string operations on code-point sequences
\* ---------------------------------------------------------------------------
\* str.lower() of one character: ASCII and full-width capitals are folded; no
\* other cased script occurs in the catalog or in the inputs
lower_char(ch) ==
  IF (ch >= 65 /\ ch <= 90) \/ (ch >= 65313 /\ ch <= 65338) THEN ch + 32 ELSE ch

lower(s) == [i \in 1..Len(s) |-> lower_char(s[i])]

\* the characters str.strip() removes
IsSpace(ch) ==
  ch \in (9..13) \cup (28..32) \cup {133, 160, 5760, 8232, 8233, 8239, 8287, 12288}
        \cup (8192..8202)

strip(s) ==
  LET keep == {i \in 1..Len(s) : ~IsSpace(s[i])}
  IN  IF keep = {} THEN <<>>
      ELSE SubSeq(s, CHOOSE i \in keep : \A j \in keep : i <= j,
                     CHOOSE i \in keep : \A j \in keep : i >= j)

RECURSIVE split_from(_, _, _, _, _)
split_from(s, sep, i, cur, acc) ==
  IF i > Len(s) THEN Append(acc, cur)
  ELSE IF s[i] = sep THEN split_from(s, sep, i + 1, <<>>, Append(acc, cur))
  ELSE split_from(s, sep, i + 1, Append(cur, s[i]), acc)

\* s.split(sep) for a one-character separator
split(s, sep) == split_from(s, sep, 1, <<>>, <<>>)

RECURSIVE join(_, _)
\* sep.join(parts)
join(sep, parts) ==
  IF Len(parts) = 0 THEN <<>>
  ELSE IF Len(parts) = 1 THEN parts[1]
  ELSE parts[1] \o sep \o join(sep, Tail(parts))

\* needle in hay
contains(hay, needle) ==
  \E i \in 0..(Len(hay) - Len(needle)) : SubSeq(hay, i + 1, i + Len(needle)) = needle

\* s.startswith(prefix)
startswith(s, prefix) ==
  Len(prefix) <= Len(s) /\ SubSeq(s, 1, Len(prefix)) = prefix

\* A plausible bug: the slice is taken from the end, s[-n:]
take_from_end(s, n) == SubSeq(s, IF n < Len(s) THEN Len(s) - n + 1 ELSE 1, Len(s))

\* s[:n]
take(s, n) == SubSeq(s, 1, IF n < Len(s) THEN n ELSE Len(s))

Comma == 44
Space == 32

\* ---------------------------------------------------------------------------
\* Meal suggestion (app.py:169-208)
\* ---------------------------------------------------------------------------
\* avoid = [a.strip() for a in allergies.split(",") if a.strip()]
avoid_list(allergies) ==
  LET parts == split(allergies, Comma)
      stripped == [i \in 1..Len(parts) |-> strip(parts[i])]
      NonEmpty(a) == a # <<>>
  IN  SelectSeq(stripped, NonEmpty)

\* A plausible bug: the comparison is case-sensitive
ok_case_sensitive(avoid, item) ==
  \A k \in 1..Len(avoid) : ~contains(item, avoid[k])

\* def ok(item): all(a.lower() not in item.lower() for a in avoid)
ok(avoid, item) ==
  \A k \in 1..Len(avoid) : ~contains(lower(item), lower(avoid[k]))

BreakfastCatalog == <<Breakfast1, Breakfast2, Breakfast3>>
LunchCatalog == <<Lunch1, Lunch2, Lunch3>>
DinnerCatalog == <<Dinner1, Dinner2, Dinner3>>
SnackCatalog == <<Snack1>>

\* [i for i in catalog if ok(i)]
surviving(catalog, avoid) ==
  LET Keep(item) == ok(avoid, item)
  IN  SelectSeq(catalog, Keep)

\* xs or [placeholder]
or_placeholder(xs) == IF xs = <<>> THEN <<Placeholder>> ELSE xs

\* lowfat = goal.startswith(CutPrefix)
lowfat(goal) == startswith(goal, CutPrefix)

\* The guide is a fixed template; the model keeps the values it interpolates,
\* in template order.
guide_of(cal, p, f, c, prefs, avoid, goal) ==
  [cal |-> cal, p |-> p, f |-> f, c |-> c,
   note |-> IF lowfat(goal) THEN NoteCut ELSE NoteOther,
   prefs |-> IF prefs = <<>> THEN PrefsEmpty ELSE prefs,
   avoid |-> IF avoid # <<>> THEN join(<<Comma, Space>>, avoid) ELSE AvoidNone]

\* def meal_suggestions
meal_suggestions(cal, p, f, c, prefs, allergies, goal) ==
  LET avoid == avoid_list(allergies)
      breakfast == surviving(BreakfastCatalog, avoid)
      lunch == surviving(LunchCatalog, avoid)
      dinner == surviving(DinnerCatalog, avoid)
      snack == surviving(SnackCatalog, avoid)
  IN  [breakfast |-> or_placeholder(take(breakfast, 2)),
       lunch |-> or_placeholder(take(lunch, 2)),
       dinner |-> or_placeholder(take(dinner, 2)),
       snack |-> take(snack, 1),
       guide |-> guide_of(cal, p, f, c, prefs, avoid, goal)]

\* ---------------------------------------------------------------------------
\* Posture analysis (app.py:212-286)
\*
\* A landmark is a point <<x, y>> in units of 1/GridN of the image, y growing
\* downward; GridN = 2 * HalfGrid, so that the vertical midline is a grid line.  pose.process() is outside the program: its result is an input,
\* either no landmarks or the ten landmarks the analysis reads.
\* ---------------------------------------------------------------------------
HalfGrid == 10
GridN == 2 * HalfGrid

NoLandmarks == [found |-> FALSE]
Landmarks(lm) == [found |-> TRUE, landmark |-> lm]

\* A plausible bug: the direction is taken from p2 to p1
line_angle_deg_reversed(p1, p2) == <<p1[1] - p2[1], p1[2] - p2[2]>>

\* def line_angle_deg(p1, p2): degrees(atan2(dy, dx)).  The angle is carried
\* as the direction <<dx, dy>> it is the arctangent of.
line_angle_deg(p1, p2) == <<p2[1] - p1[1], p2[2] - p1[2]>>

\* tan(5 degrees) = 0.08748866352592401...; no ratio dy/dx of two grid
\* differences lies between this fraction and the true value
Tan5 == <<8748866, 100000000>>

\* A plausible bug: the tilt is measured without direction, so a line drawn
\* right-to-left in the image counts as level
abs_deg_at_least_5_undirected(a) ==
  LET dx == Abs(a[1])
      dy == Abs(a[2])
  IN  ~(dy = 0 \/ (dx > 0 /\ dy * Tan5[2] < dx * Tan5[1]))

\* abs(deg) >= 5 for deg = degrees(atan2(dy, dx)) in (-180, 180]:
\* atan2(0, 0) = 0; otherwise |deg| < 5 exactly when dx > 0 and
\* |dy| < dx * tan(5 degrees)
abs_deg_at_least_5(a) ==
  LET dx == a[1]
      dy == Abs(a[2])
  IN  ~((dx = 0 /\ dy = 0) \/ (dx > 0 /\ dy * Tan5[2] < dx * Tan5[1]))

\* def dist(p1, p2): math.hypot; carried as the squared distance
dist(p1, p2) ==
  (p2[1] - p1[1]) * (p2[1] - p1[1]) + (p2[2] - p1[2]) * (p2[2] - p1[2])

\* ankle_w > 0 and knee_w / ankle_w < 0.9, on the squared distances
knee_in(knee_w, ankle_w) == ankle_w > 0 /\ 100 * knee_w < 81 * ankle_w

\* A finding is a formatted string: fixed text, a number, fixed text.
Finding(head, value, tail) == [head |-> head, value |-> value, tail |-> tail]

\* key in f: the keys are CJK/kana text, the number is ASCII digits, sign and
\* point, so a key occurs in the string iff it occurs in one fixed part
key_in(key, f) == contains(f.head, key) \/ contains(f.tail, key)

any_finding(key, findings) == \E i \in 1..Len(findings) : key_in(key, findings[i])

when(cond, x) == IF cond THEN <<x>> ELSE <<>>

\* def analyze_posture, given POSE_AVAILABLE and the result of pose.process()
analyze_posture(available, res) ==
  IF ~available
  THEN [ok |-> FALSE, message |-> MsgPoseUnavailable, findings |-> <<>>]
  ELSE IF ~res.found
  THEN [ok |-> FALSE, message |-> MsgNoLandmarks, findings |-> <<>>]
  ELSE
    LET lm == res.landmark
        shoulder_deg == line_angle_deg(lm.RIGHT_SHOULDER, lm.LEFT_SHOULDER)
        hip_deg == line_angle_deg(lm.RIGHT_HIP, lm.LEFT_HIP)
        head_deg == line_angle_deg(lm.RIGHT_EAR, lm.LEFT_EAR)
        knee_w == dist(lm.LEFT_KNEE, lm.RIGHT_KNEE)
        ankle_w == dist(lm.LEFT_ANKLE, lm.RIGHT_ANKLE)
        findings ==
          when(abs_deg_at_least_5(shoulder_deg),
               Finding(ShoulderHead, shoulder_deg, DegTail))
          \o when(abs_deg_at_least_5(hip_deg), Finding(HipHead, hip_deg, DegTail))
          \o when(abs_deg_at_least_5(head_deg), Finding(HeadHead, head_deg, DegTail))
          \o when(knee_in(knee_w, ankle_w),
                  Finding(KneeHead, <<knee_w, ankle_w>>, KneeTail))
        advice ==
          when(any_finding(KeyShoulder, findings), AdviceShoulder)
          \o when(any_finding(KeyHip, findings), AdviceHip)
          \o when(any_finding(KeyHead, findings), AdviceHead)
          \o when(any_finding(KeyKnee, findings), AdviceKnee)
    IN  [ok |-> TRUE, message |-> MsgDone, findings |-> findings, advice |-> advice]

\* ---------------------------------------------------------------------------
\* The Streamlit script main() (app.py:379-598).  Every interaction runs the
\* script once, top to bottom: the form tab, the posture tab, then the results
\* tab, which renders from st.session_state.  The contact fields and the
\* timestamps of the lead take no part in any computation and are left out, as
\* are the save, report and export buttons.
\* ---------------------------------------------------------------------------
EmptyDict == [k \in {} |-> 0]
Has(d, key) == key \in DOMAIN d
Put(d, key, v) == [k \in DOMAIN d \cup {key} |-> IF k = key THEN v ELSE d[k]]

\* The body of "if submitted:" (app.py:415-452).  form holds the widget values;
\* the result is the new session state and the message shown.
Diagnose(form, ss) ==
  LET weight_kg == form.weight_kg
      height_cm == R(form.height_cm)
      bmi == calc_bmi(weight_kg, height_cm)
  IN  IF bmi.raised
      THEN [session |-> ss, flash |-> [kind |-> "error", error |-> bmi.error]]
      ELSE
        LET bmr == mifflin_st_jeor_bmr(form.gender, weight_kg, height_cm, form.age)
            tdee_val == RMul(bmr, activity_factor(form.activity_level))
            target_cal == target_calories_from_goal(tdee_val, form.goal)
            m == macro_plan(weight_kg, R(target_cal), form.goal)
            lead == [age |-> form.age, gender |-> form.gender,
                     height_cm |-> height_cm, weight_kg |-> weight_kg,
                     activity_level |-> form.activity_level, goal |-> form.goal,
                     dietary_prefs |-> strip(form.dietary_prefs),
                     allergies |-> strip(form.allergies)]
            assess == [bmi |-> bmi.value, bmr |-> bmr, tdee |-> tdee_val,
                       target_calories |-> target_cal,
                       protein_g |-> m[1], fat_g |-> m[2], carbs_g |-> m[3]]
        IN  [session |-> Put(Put(ss, "lead", lead), "assess", assess),
             flash |-> [kind |-> "success"]]

\* st.session_state.get("posture", {...}) (app.py:488)
posture_of(ss) ==
  IF Has(ss, "posture") THEN ss.posture
  ELSE [ok |-> FALSE, message |-> MsgNotAnalyzed, findings |-> <<>>]

\* The posture section of the results tab (app.py:521-533): st.write only
posture_section(posture) ==
  IF posture.ok
  THEN [ok |-> TRUE, findings |-> posture.findings,
        advice |-> IF Has(posture, "advice") THEN posture.advice ELSE <<>>]
  ELSE [ok |-> FALSE, message |-> posture.message]

\* A plausible bug: the results wait for a successful posture analysis
RenderResults_needs_posture(ss) ==
  IF ~(Has(ss, "lead") /\ Has(ss, "assess") /\ posture_of(ss).ok)
  THEN [shown |-> FALSE]
  ELSE
    LET lead == ss.lead
        assess == ss.assess
    IN  [shown |-> TRUE,
         meals |-> meal_suggestions(assess.target_calories, assess.protein_g,
                                    assess.fat_g, assess.carbs_g,
                                    lead.dietary_prefs, lead.allergies, lead.goal),
         metrics |-> [bmi |-> assess.bmi, bmr |-> round(assess.bmr),
                      tdee |-> round(assess.tdee),
                      target_calories |-> assess.target_calories,
                      protein_g |-> assess.protein_g, fat_g |-> assess.fat_g,
                      carbs_g |-> assess.carbs_g],
         posture |-> posture_section(posture_of(ss))]

\* The results tab (app.py:484-533)
RenderResults(ss) ==
  IF ~(Has(ss, "lead") /\ Has(ss, "assess"))
  THEN [shown |-> FALSE]
  ELSE
    LET lead == ss.lead
        assess == ss.assess
    IN  [shown |-> TRUE,
         meals |-> meal_suggestions(assess.target_calories, assess.protein_g,
                                    assess.fat_g, assess.carbs_g,
                                    lead.dietary_prefs, lead.allergies, lead.goal),
         metrics |-> [bmi |-> assess.bmi, bmr |-> round(assess.bmr),
                      tdee |-> round(assess.tdee),
                      target_calories |-> assess.target_calories,
                      protein_g |-> assess.protein_g, fat_g |-> assess.fat_g,
                      carbs_g |-> assess.carbs_g],
         posture |-> posture_section(posture_of(ss))]

Rendered(form_msg, posture_msg, ss) ==
  [form |-> form_msg, posture_tab |-> posture_msg, results |-> RenderResults(ss)]

NoMessage == [kind |-> "none"]

\* The posture tab when its button is not pressed (app.py:455-481)
PostureTabIdle == IF POSE_AVAILABLE THEN NoMessage ELSE [kind |-> "info"]

\* Widget domains of the form (app.py:398-412), a sample of each
FormAges == {35}
FormHeights == {170}
FormWeights == {Rat(655, 10)}
FormGenders == {GenderMale, GenderFemale}
FormLevels == {LevelNormal}
FormGoals == {GoalCutAggressive, GoalCutMild, GoalMaintain, GoalBulk}
FormAllergies == {<<>>, <<Space>> \o TokNuts, TokEgg \o <<Comma, Space>> \o TokYogurt}

FormInputs ==
  [age : FormAges, gender : FormGenders, height_cm : FormHeights,
   weight_kg : FormWeights, activity_level : FormLevels, goal : FormGoals,
   dietary_prefs : {<<>>}, allergies : FormAllergies]

\* A run in which the form is submitted
SubmitForm ==
  \E form \in FormInputs :
    LET d == Diagnose(form, session)
    IN  /\ session' = d.session
        /\ screen' = Rendered(d.flash, PostureTabIdle, d.session)
        /\ UNCHANGED <<POSE_AVAILABLE, call>>

\* ---------------------------------------------------------------------------
\* Landmark sets handed to the analysis.  Each pair is <<right, left>>.
\* ---------------------------------------------------------------------------
XInset == 4
EarY == 2
ShoulderY == 5
HipY == 10
KneeY == 14
AnkleY == 18

Mirror(x) == GridN - x
PairXs == {XInset, HalfGrid, Mirror(XInset)}

\* right at height y, left level with it or one grid step higher or lower
LinePairs(y) ==
  {<<<<xr, y>>, <<xl, yl>>>> : xr \in PairXs, xl \in PairXs, yl \in {y - 1, y, y + 1}}

\* pairs whose x are mirrored, level or not
MirroredXPairs(y) ==
  {<<<<xr, y>>, <<Mirror(xr), yl>>>> : xr \in PairXs, yl \in {y, y + 1}}

\* leg pairs: three mirrored widths, two level pairs one and two grid steps
\* narrower than the widest, and one pair that is not level
LegPairs(y) ==
  {<<<<x, y>>, <<Mirror(x), y>>>> : x \in {XInset, XInset + 3, HalfGrid}}
    \cup {<<<<XInset, y>>, <<Mirror(XInset) - 1, y>>>>,
          <<<<XInset + 1, y>>, <<Mirror(XInset) - 1, y>>>>,
          <<<<XInset, y>>, <<HalfGrid, y + 1>>>>}

LandmarkSets ==
  {[RIGHT_SHOULDER |-> s[1], LEFT_SHOULDER |-> s[2],
    RIGHT_HIP |-> h[1], LEFT_HIP |-> h[2],
    RIGHT_EAR |-> e[1], LEFT_EAR |-> e[2],
    RIGHT_KNEE |-> k[1], LEFT_KNEE |-> k[2],
    RIGHT_ANKLE |-> a[1], LEFT_ANKLE |-> a[2]] :
     s \in LinePairs(ShoulderY), h \in MirroredXPairs(HipY),
     e \in MirroredXPairs(EarY), k \in LegPairs(KneeY), a \in LegPairs(AnkleY)}

\* A frontal, level, evenly spaced stance and three deviations from it
Level(x, y) == <<<<x, y>>, <<Mirror(x), y>>>>
Stance(s, h, e, k, a) ==
  [RIGHT_SHOULDER |-> s[1], LEFT_SHOULDER |-> s[2],
   RIGHT_HIP |-> h[1], LEFT_HIP |-> h[2],
   RIGHT_EAR |-> e[1], LEFT_EAR |-> e[2],
   RIGHT_KNEE |-> k[1], LEFT_KNEE |-> k[2],
   RIGHT_ANKLE |-> a[1], LEFT_ANKLE |-> a[2]]

AppLandmarkSets ==
  {Stance(Level(XInset, ShoulderY), Level(XInset, HipY), Level(XInset, EarY),
          Level(XInset, KneeY), Level(XInset, AnkleY)),
   Stance(<<<<XInset, ShoulderY>>, <<HalfGrid, ShoulderY + 1>>>>,
          Level(XInset, HipY), Level(XInset, EarY),
          Level(XInset, KneeY), Level(XInset, AnkleY)),
   Stance(Level(XInset, ShoulderY), Level(XInset, HipY), Level(XInset, EarY),
          Level(XInset + 3, KneeY), Level(XInset, AnkleY))}

\* What pose.process() may hand back in the application
PoseResults == {NoLandmarks} \cup {Landmarks(lm) : lm \in AppLandmarkSets}

\* A run in which "analyze" is pressed on an uploaded image (app.py:457-479).
\* Image.open or the pose library may raise: the except branch shows the error
\* and stores nothing.
ClickAnalyze ==
  /\ POSE_AVAILABLE
  /\ \/ \E res \in PoseResults :
          LET result == analyze_posture(POSE_AVAILABLE, res)
              ss == Put(session, "posture", result)
          IN  /\ session' = ss
              /\ screen' = Rendered(NoMessage,
                                    [kind |-> IF result.ok THEN "success" ELSE "warning"],
                                    ss)
     \/ /\ session' = session
        /\ screen' = Rendered(NoMessage, [kind |-> "error"], session)
  /\ UNCHANGED <<POSE_AVAILABLE, call>>

\* A run caused by any other interaction: nothing is submitted or pressed
Rerun ==
  /\ screen' = Rendered(NoMessage, PostureTabIdle, session)
  /\ UNCHANGED <<POSE_AVAILABLE, session, call>>

NoCall == [fn |-> "none"]

\* The state when the script first runs: an empty session
Init ==
  /\ POSE_AVAILABLE \in BOOLEAN
  /\ session = EmptyDict
  /\ screen = Rendered(NoMessage, PostureTabIdle, EmptyDict)
  /\ call = NoCall

Next == SubmitForm \/ ClickAnalyze \/ Rerun

Spec == Init /\ [][Next]_vars


\* ---------------------------------------------------------------------------
\* Direct calls of the functions, as a test or another caller makes them:
\* the initial state holds the arguments, the action applies the function.
\* ---------------------------------------------------------------------------
Pending(fn, args) == [fn |-> fn, done |-> FALSE, args |-> args]
Finished(c, result) == [fn |-> c.fn, done |-> TRUE, args |-> c.args, result |-> result]

AppIdle ==
  /\ POSE_AVAILABLE = TRUE
  /\ session = EmptyDict
  /\ screen = Rendered(NoMessage, NoMessage, EmptyDict)

Apply(fn, result) ==
  /\ call.fn = fn
  /\ ~call.done
  /\ call' = Finished(call, result)
  /\ UNCHANGED <<POSE_AVAILABLE, session, screen>>

\* Inputs of the nutrition calculators.  Weights are given in tenths of a kg
\* (the step of the weight field), heights in whole cm, energies in halves of
\* a kcal.
MaxTdeeHalves == 80
MaxWeightTenths == 26
MaxCalories == 40

UnknownText == <<63>>
Genders == {GenderMale, GenderFemale, UnknownText}
Levels ==
  {LevelLow, LevelSomewhatLow, LevelNormal, LevelHigh, LevelVeryHigh,
   UnknownText, <<>>}
Goals ==
  {GoalCutAggressive, GoalCutMild, GoalMaintain, GoalBulk, UnknownText, CutPrefix}

BmiWeights == {Rat(w, 10) : w \in {-650, -1, 0, 1, 300, 650, 2000}}
BmiHeights == {R(h) : h \in {-170, 0, 1, 120, 170, 220}}
BmrAges == {0, 30, 100}
Tdees == {Rat(k, 2) : k \in (-4..MaxTdeeHalves) \cup {4000, 3095, 5013}}
MacroWeights == {Rat(w, 10) : w \in (1..MaxWeightTenths) \cup {300, 655, 2000}}
MacroCalories == (0..MaxCalories) \cup {473, 1700, 2000, 3500}

\* Client profiles: the data model's ranges, the corners of the form's ranges
\* (app.py:398-401) and, for the validation of the inputs, a zero height and a
\* zero weight
ProfileAges == {0, 10, 35, 100}
ProfileHeights == {0, 100, 120, 170, 220}
ProfileWeights == {Rat(w, 10) : w \in {0, 300, 655, 2000}}
Profiles ==
  [age : ProfileAges, gender : Genders, height_cm : ProfileHeights,
   weight_kg : ProfileWeights, activity_level : Levels, goal : Goals,
   dietary_prefs : {<<>>}, allergies : {<<>>}]

NutritionCalls ==
  {Pending("calc_bmi", <<w, h>>) : w \in BmiWeights, h \in BmiHeights}
    \cup {Pending("mifflin_st_jeor_bmr", <<g, w, h, a>>) :
            g \in Genders, w \in ProfileWeights, h \in {R(x) : x \in ProfileHeights},
            a \in BmrAges}
    \cup {Pending("activity_factor", <<l>>) : l \in Levels}
    \cup {Pending("target_calories_from_goal", <<t, g>>) : t \in Tdees, g \in Goals}
    \cup {Pending("macro_plan", <<w, c, g>>) :
            w \in MacroWeights, c \in MacroCalories, g \in Goals}
    \cup {Pending("diagnose", <<p>>) : p \in Profiles}

InitNutrition == AppIdle /\ call \in NutritionCalls

CallCalcBmi == Apply("calc_bmi", calc_bmi(call.args[1], call.args[2]))
CallBmr ==
  Apply("mifflin_st_jeor_bmr",
        mifflin_st_jeor_bmr(call.args[1], call.args[2], call.args[3], call.args[4]))
CallActivityFactor == Apply("activity_factor", activity_factor(call.args[1]))
CallTargetCalories ==
  Apply("target_calories_from_goal",
        target_calories_from_goal(call.args[1], call.args[2]))
CallMacroPlan ==
  Apply("macro_plan", macro_plan(call.args[1], R(call.args[2]), call.args[3]))
\* the submitted form's block run on a profile, from an empty session
CallDiagnose == Apply("diagnose", Diagnose(call.args[1], EmptyDict))

NextNutrition ==
  \/ CallCalcBmi
  \/ CallBmr
  \/ CallActivityFactor
  \/ CallTargetCalories
  \/ CallMacroPlan
  \/ CallDiagnose

SpecNutrition == InitNutrition /\ [][NextNutrition]_vars

\* Inputs of meal_suggestions: the allergy field is typed as tokens joined by
\* commas, with blanks around some of them and some of them empty
MaxTokens == 3
TokenTexts ==
  {<<>>, <<Space>>, TokMilk, <<Space>> \o TokEgg, TokYogurt \o <<Space>>,
   TokBanana, TokNuts, TokChicken, <<71>>}

RECURSIVE TokenLists(_)
TokenLists(n) ==
  IF n = 0 THEN {<<>>}
  ELSE LET shorter == TokenLists(n - 1)
       IN  shorter \cup {Append(l, t) : l \in {s \in shorter : Len(s) = n - 1},
                                         t \in TokenTexts}

AllergyTexts == {join(<<Comma>>, l) : l \in TokenLists(MaxTokens)}
MealGoals == {GoalCutAggressive, GoalCutMild, GoalMaintain, GoalBulk, UnknownText}

MealCalls ==
  {Pending("meal_suggestions", <<2000, 118, 56, 257, <<>>, a, g>>) :
     a \in AllergyTexts, g \in MealGoals}

InitMeals == AppIdle /\ call \in MealCalls

CallMealSuggestions ==
  Apply("meal_suggestions",
        meal_suggestions(call.args[1], call.args[2], call.args[3], call.args[4],
                         call.args[5], call.args[6], call.args[7]))

NextMeals == CallMealSuggestions

SpecMeals == InitMeals /\ [][NextMeals]_vars

\* Inputs of analyze_posture: the availability flag and the pose result
PostureCalls ==
  {Pending("analyze_posture", <<a, r>>) :
     a \in BOOLEAN, r \in {NoLandmarks} \cup {Landmarks(lm) : lm \in LandmarkSets}}

InitPosture == AppIdle /\ call \in PostureCalls

CallAnalyzePosture ==
  Apply("analyze_posture", analyze_posture(call.args[1], call.args[2]))

NextPosture == CallAnalyzePosture

SpecPosture == InitPosture /\ [][NextPosture]_vars


\* ---------------------------------------------------------------------------
\* Properties of the nutrition calculators (checked under SpecNutrition)
\* ---------------------------------------------------------------------------
Is(fn) == call.fn = fn /\ call.done

\* |a - b| <= 1/2
WithinHalf(a, b) == RLeq(RAbs(RSub(a, b)), Rat(1, 2))

NonPositive(q) == q[1] <= 0

ValidProfile(f) == f.age >= 0 /\ f.height_cm > 0 /\ f.weight_kg[1] > 0

MacroKcal(a) == a.protein_g * 4 + a.fat_g * 9 + a.carbs_g * 4

\* the rounding residue: 0.5 g on each macro, (4 + 9 + 4) / 2 = 17/2 kcal
WithinResidue(a) == 2 * Abs(MacroKcal(a) - a.target_calories) <= 17

\* a profile of the data model with the enumerated values of the form
EnumProfile(f) ==
  /\ ValidProfile(f)
  /\ f.gender \in {GenderMale, GenderFemale}
  /\ f.activity_level \in {LevelLow, LevelSomewhatLow, LevelNormal, LevelHigh, LevelVeryHigh}
  /\ f.goal \in {GoalCutAggressive, GoalCutMild, GoalMaintain, GoalBulk}

\* C2 as the specification states it: every assessment of a profile of the
\* data model has macro calories within 8.5 kcal of the calorie target.
C2_MacrosSumToTarget ==
  Is("diagnose") /\ EnumProfile(call.args[1]) =>
    /\ call.result.flash.kind = "success"
    /\ LET a == call.result.session.assess
       IN  WithinResidue(a)

\* protein kcal (1.8 g/kg at 4 kcal/g) plus fat kcal (25%) fit in the target
Unclamped(weight_kg, target) ==
  RLeq(RAdd(RMul(Rat(72, 10), weight_kg), Rat(target, 4)), R(target))

\* a profile inside the ranges of the form's number inputs (app.py:398-401)
InFormRanges(f) ==
  /\ 10 <= f.age /\ f.age <= 100
  /\ 120 <= f.height_cm /\ f.height_cm <= 220
  /\ RLeq(R(30), f.weight_kg) /\ RLeq(f.weight_kg, R(200))

\* C2, amended: every assessment of a profile of the data model whose protein
\* and fat calories fit in the target (the carbohydrate remainder is not
\* clamped at 0) has macro calories within 8.5 kcal of the calorie target,
\* and inside the ranges of the form the remainder is never clamped.
C2_MacrosSumToTargetUnclamped ==
  Is("diagnose") /\ ValidProfile(call.args[1]) =>
    /\ call.result.flash.kind = "success"
    /\ LET a == call.result.session.assess
           fits == Unclamped(call.args[1].weight_kg, a.target_calories)
       IN  /\ fits => WithinResidue(a)
           /\ InFormRanges(call.args[1]) => fits

\* C2 witness: an assessment with all three macros positive whose rounded
\* macros do not add up to the target exactly
C2_Witness ==
  /\ Is("diagnose") /\ ValidProfile(call.args[1])
  /\ call.result.flash.kind = "success"
  /\ LET a == call.result.session.assess
     IN  /\ Unclamped(call.args[1].weight_kg, a.target_calories)
         /\ a.carbs_g > 0
         /\ MacroKcal(a) # a.target_calories

\* C3: for every weight > 0, calorie target >= 0 and goal, macro_plan returns
\* the integer nearest to 1.8 * weight as protein_g, the same for every goal
\* and calorie target, and carbs_g >= 0; carbs_g is 0 when protein kcal
\* (protein_g * 4) plus fat kcal (25% of the calories) exceed the target.
C3_ProteinFixedCarbsNonNegative ==
  Is("macro_plan") /\ call.args[1][1] > 0 /\ call.args[2] >= 0 =>
    LET w == call.args[1]
        cal == call.args[2]
        r == call.result
    IN  /\ WithinHalf(R(r[1]), RMul(Rat(18, 10), w))
        /\ \A c \in MacroCalories, g \in Goals : macro_plan(w, R(c), g)[1] = r[1]
        /\ r[3] >= 0
        /\ RLess(R(cal), RAdd(R(r[1] * 4), Rat(cal, 4))) => r[3] = 0
        /\ RLess(R(cal), RAdd(RMul(Rat(72, 10), w), Rat(cal, 4))) => r[3] = 0

\* C3 witness: protein and fat calories exceed a positive target and the
\* carbohydrate comes out as 0
C3_Witness ==
  /\ Is("macro_plan") /\ call.args[1][1] > 0 /\ call.args[2] > 0
  /\ RLess(R(call.args[2]), RAdd(R(call.result[1] * 4), Rat(call.args[2], 4)))
  /\ call.result[3] = 0 /\ call.result[1] > 0

\* the multiplier table of the specification, in hundredths
GoalPercent(goal) ==
  IF goal = GoalCutAggressive THEN 85
  ELSE IF goal = GoalCutMild THEN 90
  ELSE IF goal = GoalBulk THEN 110
  ELSE 100

\* C9: target_calories_from_goal returns an integer nearest to tdee times the
\* goal's multiplier (0.85, 0.90, 1.00, 1.10), with 1.00 for any other goal;
\* tdee = 2000 gives 1700, 1800, 2000 and 2200.
C9_TargetCaloriesTable ==
  Is("target_calories_from_goal") =>
    LET tdee == call.args[1]
        goal == call.args[2]
        r == call.result
    IN  /\ r \in Int
        /\ WithinHalf(R(r), RMul(tdee, Rat(GoalPercent(goal), 100)))
        /\ tdee = R(2000) =>
             r = IF goal = GoalCutAggressive THEN 1700
                 ELSE IF goal = GoalCutMild THEN 1800
                 ELSE IF goal = GoalBulk THEN 2200
                 ELSE 2000

\* C9 witness: an unrecognised goal took the multiplier 1.00 of a tdee that is
\* not a whole number
C9_Witness ==
  /\ Is("target_calories_from_goal")
  /\ call.args[2] \notin {GoalCutAggressive, GoalCutMild, GoalMaintain, GoalBulk}
  /\ call.args[1][2] # 1 /\ call.args[1][1] > 0
  /\ WithinHalf(R(call.result), call.args[1])

\* the activity table of the specification, in thousandths
FactorPerMille(level) ==
  IF level = LevelSomewhatLow THEN 1375
  ELSE IF level = LevelNormal THEN 1550
  ELSE IF level = LevelHigh THEN 1725
  ELSE IF level = LevelVeryHigh THEN 1900
  ELSE 1200

\* C10: activity_factor returns 1.2, 1.375, 1.55, 1.725, 1.9 for the five
\* known levels and 1.2 for any other level, raising nothing, and the stored
\* TDEE is the stored BMR times that factor.
C10_ActivityFactorTable ==
  /\ Is("activity_factor") =>
       call.result = Rat(FactorPerMille(call.args[1]), 1000)
  /\ Is("diagnose") /\ call.result.flash.kind = "success" =>
       LET a == call.result.session.assess
       IN  a.tdee = RMul(a.bmr, Rat(FactorPerMille(call.args[1].activity_level), 1000))

\* C10 witness: an assessment made for a level outside the table, with a
\* positive BMR scaled by 1.2
C10_Witness ==
  /\ Is("diagnose") /\ call.result.flash.kind = "success"
  /\ ValidProfile(call.args[1])
  /\ call.args[1].activity_level \notin
       {LevelLow, LevelSomewhatLow, LevelNormal, LevelHigh, LevelVeryHigh}
  /\ call.result.session.assess.bmr[1] > 0
  /\ call.result.session.assess.tdee = RMul(call.result.session.assess.bmr, Rat(12, 10))


\* ---------------------------------------------------------------------------
\* Properties of meal_suggestions (checked under SpecMeals)
\* ---------------------------------------------------------------------------
Slots == {"breakfast", "lunch", "dinner", "snack"}

CatalogOf(slot) ==
  IF slot = "breakfast" THEN BreakfastCatalog
  ELSE IF slot = "lunch" THEN LunchCatalog
  ELSE IF slot = "dinner" THEN DinnerCatalog
  ELSE SnackCatalog

Elems(s) == {s[i] : i \in 1..Len(s)}

\* position i of text a starts a token: a visible character, not a comma, with
\* nothing but blanks between it and the preceding comma or the start
TokenStart(a, i) ==
  /\ a[i] # Comma /\ ~IsSpace(a[i])
  /\ \A k \in 1..(i - 1) : (\A m \in k..(i - 1) : a[m] # Comma) => IsSpace(a[k])

\* position j of text a ends a token
TokenEnd(a, j) ==
  /\ a[j] # Comma /\ ~IsSpace(a[j])
  /\ \A k \in (j + 1)..Len(a) : (\A m \in (j + 1)..k : a[m] # Comma) => IsSpace(a[k])

\* the trimmed, non-empty tokens of a comma-separated text
TypedTokens(a) ==
  LET starts == {i \in 1..Len(a) : TokenStart(a, i)}
      ends == {j \in 1..Len(a) : TokenEnd(a, j)}
  IN  {SubSeq(a, q[1], q[2]) :
         q \in {r \in starts \X ends :
                  r[1] <= r[2] /\ \A k \in r[1]..r[2] : a[k] # Comma}}

\* token t occurs in dish d, letter case aside
OccursIn(t, d) ==
  \E off \in 0..(Len(d) - Len(t)) :
    \A j \in 1..Len(t) : lower_char(d[off + j]) = lower_char(t[j])

Hit(d, tokens) == \E t \in tokens : OccursIn(t, d)

\* C4 as the specification states it: no slot of the meal plan is an empty
\* list, and a slot none of whose dishes survives holds the placeholder.
C4_NoEmptySlot ==
  Is("meal_suggestions") =>
    LET tokens == TypedTokens(call.args[6])
    IN  \A slot \in Slots :
          /\ call.result[slot] # <<>>
          /\ (\A d \in Elems(CatalogOf(slot)) : Hit(d, tokens))
               => call.result[slot] = <<Placeholder>>

\* C5: no catalog dish returned in any slot contains a trimmed, non-empty
\* token of the allergy text, letter case aside: one matching token excludes
\* the dish.  The filter excludes nothing else: a slot's first dish is
\* returned when no token matches it.
C5_NoAllergenDish ==
  Is("meal_suggestions") =>
    LET tokens == TypedTokens(call.args[6])
    IN  \A slot \in Slots :
          /\ \A d \in Elems(CatalogOf(slot)) :
               Hit(d, tokens) => d \notin Elems(call.result[slot])
          /\ ~Hit(CatalogOf(slot)[1], tokens)
               => call.result[slot] # <<>> /\ call.result[slot][1] = CatalogOf(slot)[1]

\* C5 witness: a capital letter typed as a token removed the lunch dishes that
\* hold it in lower case, and a padded token removed a breakfast dish while
\* another breakfast dish was returned
C5_Witness ==
  /\ Is("meal_suggestions")
  /\ <<71>> \in TypedTokens(call.args[6])
  /\ TokEgg \in TypedTokens(call.args[6])
  /\ call.result.lunch = <<Placeholder>>
  /\ call.result.breakfast = <<Breakfast1, Breakfast3>>

\* C7 as the specification states it: both cut goals get the cut note, every
\* other goal the other note.
C7_NoteByCutGoal ==
  Is("meal_suggestions") =>
    call.result.guide.note =
      IF call.args[7] \in {GoalCutAggressive, GoalCutMild} THEN NoteCut ELSE NoteOther

\* the slice length of a slot: breakfast[:2], lunch[:2], dinner[:2], snack[:1]
LimitOf(slot) == IF slot = "snack" THEN 1 ELSE 2

\* the slots of the meal plan returned for the pending call's inputs with
\* goal g in place of its goal
SlotsFor(g) ==
  LET m == meal_suggestions(call.args[1], call.args[2], call.args[3], call.args[4],
                            call.args[5], call.args[6], g)
  IN  [slot \in Slots |-> m[slot]]

\* C11: for every allergy text, breakfast, lunch and dinner hold at most 2
\* entries and snack at most 1; the catalog dishes of a slot are exactly the
\* first surviving dishes of the slot's catalog (those with fewer surviving
\* dishes before them than the slot's limit), in catalog order, a surviving
\* dish being one that no typed allergy token occurs in; the placeholder
\* appears only in a slot without dishes; and the slots are the same on every
\* call with the same allergy text, whatever the goal.
C11_FirstSurvivorsInCatalogOrder ==
  Is("meal_suggestions") =>
    LET tokens == TypedTokens(call.args[6])
        IsDish(d) == d # Placeholder
    IN  /\ \A slot \in Slots :
             LET cat == CatalogOf(slot)
                 got == call.result[slot]
                 dishes == SelectSeq(got, IsDish)
                 Survives(i) == ~Hit(cat[i], tokens)
                 Earlier(i) == Cardinality({j \in 1..(i - 1) : Survives(j)})
                 Chosen == {i \in 1..Len(cat) : Survives(i) /\ Earlier(i) < LimitOf(slot)}
             IN  /\ Len(got) <= LimitOf(slot)
                 /\ Len(dishes) = Cardinality(Chosen)
                 /\ \A k \in 1..Len(dishes) :
                      \E i \in Chosen : dishes[k] = cat[i] /\ Earlier(i) = k - 1
                 /\ got # dishes => dishes = <<>>
        /\ \A g \in MealGoals :
             SlotsFor(g) = [slot \in Slots |-> call.result[slot]]

\* C11 witness: a token removed the first breakfast dish and the two later
\* ones were returned in catalog order, while all three dinner dishes survived
\* and only the first two were returned
C11_Witness ==
  /\ Is("meal_suggestions")
  /\ call.result.breakfast = <<Breakfast2, Breakfast3>>
  /\ call.result.dinner = <<Dinner1, Dinner2>>
  /\ ~Hit(Dinner3, TypedTokens(call.args[6]))


\* ---------------------------------------------------------------------------
\* Properties of analyze_posture (checked under SpecPosture)
\* ---------------------------------------------------------------------------
\* the pair <<right, left>> is mirrored across the vertical midline
MirroredPair(right, left) == right[2] = left[2] /\ left[1] = GridN - right[1]

AllMirrored(lm) ==
  /\ MirroredPair(lm.RIGHT_SHOULDER, lm.LEFT_SHOULDER)
  /\ MirroredPair(lm.RIGHT_HIP, lm.LEFT_HIP)
  /\ MirroredPair(lm.RIGHT_EAR, lm.LEFT_EAR)
  /\ MirroredPair(lm.RIGHT_KNEE, lm.LEFT_KNEE)
  /\ MirroredPair(lm.RIGHT_ANKLE, lm.LEFT_ANKLE)

Analysed == Is("analyze_posture") /\ call.args[1] /\ call.args[2].found

\* C6 as the specification states it: a mirrored landmark set is analysed with
\* zero findings and zero advisories, whatever the spacing of a pair and
\* whichever of its points has the smaller x.
C6_MirroredNoFindings ==
  Analysed /\ AllMirrored(call.args[2].landmark) =>
    /\ call.result.ok
    /\ call.result.findings = <<>>
    /\ call.result.advice = <<>>

\* in the image the left point of shoulders, hips and ears is not to the left
\* of the right point, as in a frontal photograph
Frontal(lm) ==
  /\ lm.LEFT_SHOULDER[1] >= lm.RIGHT_SHOULDER[1]
  /\ lm.LEFT_HIP[1] >= lm.RIGHT_HIP[1]
  /\ lm.LEFT_EAR[1] >= lm.RIGHT_EAR[1]

\* for level pairs: ankle distance 0, or knee distance >= 0.90 * ankle distance
KneesOverAnkles(lm) ==
  LET knee == Abs(lm.LEFT_KNEE[1] - lm.RIGHT_KNEE[1])
      ankle == Abs(lm.LEFT_ANKLE[1] - lm.RIGHT_ANKLE[1])
  IN  ankle = 0 \/ 10 * knee >= 9 * ankle

\* C6, amended: a mirrored landmark set is analysed (detected = true), and it
\* has zero findings and zero advisories exactly when the left point of
\* shoulders, hips and ears is not at a smaller x than the right point and the
\* knees are at least 0.90 times as far apart as the ankles (or the ankles
\* coincide).
C6_MirroredFrontalNoFindings ==
  Analysed /\ AllMirrored(call.args[2].landmark) =>
    /\ call.result.ok
    /\ (call.result.findings = <<>>) <=> (call.result.advice = <<>>)
    /\ (call.result.findings = <<>>)
         <=> (Frontal(call.args[2].landmark) /\ KneesOverAnkles(call.args[2].landmark))

\* C6 witness: a mirrored frontal stance with shoulders, knees and ankles
\* apart came back with no finding and no advisory
C6_Witness ==
  /\ Analysed /\ AllMirrored(call.args[2].landmark)
  /\ call.args[2].landmark.LEFT_SHOULDER[1] > call.args[2].landmark.RIGHT_SHOULDER[1]
  /\ call.args[2].landmark.LEFT_ANKLE[1] > call.args[2].landmark.RIGHT_ANKLE[1]
  /\ call.args[2].landmark.LEFT_KNEE[1] > call.args[2].landmark.RIGHT_KNEE[1]
  /\ call.result.ok /\ call.result.findings = <<>> /\ call.result.advice = <<>>

\* the line from point right to point left is at least 5 degrees off the
\* horizontal: the points differ and the line does not run towards growing x
\* within 5 degrees, i.e. with cos^2 above cos^2(5 degrees) = 0.992403...
Tilted(right, left) ==
  LET dx == left[1] - right[1]
      dy == left[2] - right[2]
  IN  /\ right # left
      /\ ~(dx > 0 /\ 1000000 * dx * dx > 992404 * (dx * dx + dy * dy))

\* the knees are less than 0.90 times as far apart as the ankles, which are
\* apart (squares of the distances compared: 0.90^2 = 81/100)
KneesInside(lm) ==
  LET Sq(p, q) == (p[1] - q[1]) * (p[1] - q[1]) + (p[2] - q[2]) * (p[2] - q[2])
  IN  /\ lm.LEFT_ANKLE # lm.RIGHT_ANKLE
      /\ 100 * Sq(lm.LEFT_KNEE, lm.RIGHT_KNEE) < 81 * Sq(lm.LEFT_ANKLE, lm.RIGHT_ANKLE)

\* the checks, in order, that are due for a landmark set
DueChecks(lm) ==
  (IF Tilted(lm.RIGHT_SHOULDER, lm.LEFT_SHOULDER) THEN <<ShoulderHead>> ELSE <<>>)
    \o (IF Tilted(lm.RIGHT_HIP, lm.LEFT_HIP) THEN <<HipHead>> ELSE <<>>)
    \o (IF Tilted(lm.RIGHT_EAR, lm.LEFT_EAR) THEN <<HeadHead>> ELSE <<>>)
    \o (IF KneesInside(lm) THEN <<KneeHead>> ELSE <<>>)

\* the right-to-left line of the pair that a symmetry finding is about
PairOf(head, lm) ==
  IF head = ShoulderHead THEN <<lm.RIGHT_SHOULDER, lm.LEFT_SHOULDER>>
  ELSE IF head = HipHead THEN <<lm.RIGHT_HIP, lm.LEFT_HIP>>
  ELSE <<lm.RIGHT_EAR, lm.LEFT_EAR>>

\* C12: when landmarks are detected the analysis succeeds and the findings
\* are, in the order shoulder, hip, head, knee and each once, exactly the
\* checks whose own condition is met: a pair's finding iff its right-to-left
\* line is at least 5 degrees off the horizontal, whatever the other pairs,
\* carrying the angle of that line with its sign (the direction from the
\* right point to the left point); the knee finding iff the ankles are apart
\* and knee distance / ankle distance < 0.90, so that coinciding ankles
\* give no knee finding and no error.
C12_FindingsAreTheDueChecks ==
  Analysed =>
    LET lm == call.args[2].landmark
        f == call.result.findings
    IN  /\ call.result.ok
        /\ [i \in 1..Len(f) |-> f[i].head] = DueChecks(lm)
        /\ \A i \in 1..Len(f) :
             f[i].head # KneeHead =>
               LET pair == PairOf(f[i].head, lm)
               IN  f[i].value = <<pair[2][1] - pair[1][1], pair[2][2] - pair[1][2]>>
        /\ lm.LEFT_ANKLE = lm.RIGHT_ANKLE =>
             \A i \in 1..Len(f) : f[i].head # KneeHead

\* C12 witness: the left shoulder is higher in the image than the right one
\* (a negative angle) and the ears are tilted while the hips are level and
\* the ankles coincide: the findings are the shoulder one, carrying the
\* negative angle, and the head one
C12_Witness ==
  /\ Analysed
  /\ call.result.ok
  /\ Len(call.result.findings) = 2
  /\ call.result.findings[1].head = ShoulderHead
  /\ call.result.findings[1].value[1] > 0
  /\ call.result.findings[1].value[2] < 0
  /\ call.result.findings[2].head = HeadHead
  /\ call.args[2].landmark.LEFT_ANKLE = call.args[2].landmark.RIGHT_ANKLE
  /\ call.args[2].landmark.LEFT_KNEE # call.args[2].landmark.RIGHT_KNEE


\* ---------------------------------------------------------------------------
\* Properties of the session (checked under Spec)
\* ---------------------------------------------------------------------------
Diagnosed == Has(session, "lead") /\ Has(session, "assess")

\* the results tab shows the stored assessment and a meal plan made from it
ResultsShown ==
  /\ screen.results.shown
  /\ screen.results.metrics.bmi = session.assess.bmi
  /\ screen.results.metrics.target_calories = session.assess.target_calories
  /\ screen.results.metrics.protein_g = session.assess.protein_g
  /\ screen.results.metrics.fat_g = session.assess.fat_g
  /\ screen.results.metrics.carbs_g = session.assess.carbs_g
  /\ screen.results.meals.guide.cal = session.assess.target_calories
  /\ \A slot \in {"breakfast", "lunch", "dinner"} : screen.results.meals[slot] # <<>>

\* the posture section when no analysis has succeeded: a plain message,
\* "not analysed" when none ran and the reason when one failed
PostureSectionQuiet ==
  IF ~Has(session, "posture")
  THEN screen.results.posture = [ok |-> FALSE, message |-> MsgNotAnalyzed]
  ELSE ~session.posture.ok =>
         /\ screen.results.posture = [ok |-> FALSE, message |-> session.posture.message]
         /\ session.posture.message \in {MsgNoLandmarks, MsgPoseUnavailable}

\* a run of the script in which the analysis button was pressed
PostureRun == screen'.posture_tab.kind \in {"success", "warning", "error"}

KeepsDiagnosis ==
  \A k \in {"lead", "assess"} :
    /\ Has(session', k) <=> Has(session, k)
    /\ Has(session, k) => session'[k] = session[k]

\* C8: once a diagnosis has succeeded, every run renders the assessment and
\* the meal plan, whatever the posture analyses did; with no successful
\* analysis the posture section is a plain message (detected = false); and a
\* run that analyses the posture leaves the stored lead and assessment as
\* they were.
C8_PostureNeverBlocksResults ==
  /\ [](Diagnosed => ResultsShown /\ PostureSectionQuiet)
  /\ [][PostureRun => KeepsDiagnosis]_vars
  /\ [][Diagnosed => Diagnosed']_vars

\* C8 witness: after a diagnosis, an analysis that found no landmarks, and the
\* results on screen with the analysis' message in the posture section
C8_Witness ==
  /\ Diagnosed
  /\ Has(session, "posture") /\ ~session.posture.ok
  /\ screen.posture_tab.kind = "warning"
  /\ screen.results.shown
  /\ screen.results.posture = [ok |-> FALSE, message |-> MsgNoLandmarks]

=============================================================================
